---------------------------- MODULE Spec2Model ----------------------------
(***************************************************************************)
(* Model of match_no_scrape.py: a resume is ranked against the job         *)
(* descriptions of a CSV table by TF-IDF cosine similarity.                *)
(*                                                                         *)
(* Text is a sequence of one-character strings.  A cell value is a record  *)
(* [isna, text]: isna marks pandas' missing value (NaN), text is what      *)
(* str(value) gives for any other scalar.  A table (DataFrame) is a record *)
(* [columns, rows]: columns is the sequence of column names, rows the      *)
(* sequence of rows, each a sequence of cell values aligned with columns.  *)
(***************************************************************************)
EXTENDS Integers, Sequences, FiniteSets, TLC

VARIABLES
    pc,               \* position of main(), or of the direct-call harness
    resume_file,      \* [exists, text]: the file behind --resume
    data_file,        \* [exists, columns, rows]: the file behind --data, as read_csv parses it
    resume_text,      \* main's resume_text (line 166)
    df,               \* main's df (line 170); the argument of the detect_* functions
    description_col,  \* [found, name]: result of detect_description_column
    optional_cols,    \* [title, company, url], each [found, name]
    work_df,          \* rank_matches' work_df just before the sort (lines 106-123)
    indexer,          \* the order sort_values puts work_df's rows in (line 124)
    ranked,           \* rank_matches' return value (after reset_index)
    output_df,        \* build_output_table's return value
    sink,             \* [written, rows]: the file behind --output
    error             \* the exception that ended the run ("" while none)

vars == <<pc, resume_file, data_file, resume_text, df, description_col,
          optional_cols, work_df, indexer, ranked, output_df, sink, error>>

---------------------------------------------------------------------------
(* Bounds of the model *)

\* most rows of an input table
MaxRows == 2
\* full-precision score levels: a cosine is one of 0..MaxScore
MaxScore == 3
\* full-precision levels per unit of the 6th decimal
ScoreSub == 2

(* Program constants *)

\* detect_description_column: total_score = name_score * 1000 + avg_len
NameMultiplier == 1000
\* build_output_table: description[:220]
SnippetLen == 220

---------------------------------------------------------------------------
(* Characters and strings *)

\* the characters \s matches, among those the inputs use
Whitespace == {" ", "\t", "\n"}

UpperCase ==
    <<"A","B","C","D","E","F","G","H","I","J","K","L","M",
      "N","O","P","Q","R","S","T","U","V","W","X","Y","Z">>

LowerCase ==
    <<"a","b","c","d","e","f","g","h","i","j","k","l","m",
      "n","o","p","q","r","s","t","u","v","w","x","y","z">>

Digits == {"0","1","2","3","4","5","6","7","8","9"}

\* the characters \w matches
WordChars ==
    {LowerCase[i] : i \in 1..26} \cup {UpperCase[i] : i \in 1..26} \cup Digits \cup {"_"}

UpperSet == {UpperCase[i] : i \in 1..26}

\* str.lower() on one character
LowerChar(c) ==
    IF c \in UpperSet
    THEN LowerCase[CHOOSE i \in 1..26 : UpperCase[i] = c]
    ELSE c

\* str.lower()
Lower(s) == [i \in 1..Len(s) |-> LowerChar(s[i])]

RECURSIVE LStrip(_)
LStrip(s) ==
    IF s # <<>> /\ Head(s) \in Whitespace THEN LStrip(Tail(s)) ELSE s

RECURSIVE RStrip(_)
RStrip(s) ==
    IF s # <<>> /\ s[Len(s)] \in Whitespace
    THEN RStrip(SubSeq(s, 1, Len(s) - 1))
    ELSE s

\* str.strip()
Strip(s) == RStrip(LStrip(s))

\* re.sub(r"\s+", " ", text): every maximal run of whitespace becomes one space
CollapseWs(text) ==
    LET marked == [i \in 1..Len(text) |->
                     IF text[i] \notin Whitespace THEN text[i]
                     ELSE IF i = 1 \/ text[i-1] \notin Whitespace THEN " "
                     ELSE ""]
    IN SelectSeq(marked, LAMBDA c : c # "")

\* python's `key in s` on strings
IsSubstring(key, s) ==
    \E i \in 0..(Len(s) - Len(key)) : SubSeq(s, i + 1, i + Len(key)) = key

\* pandas' missing value, and a present value whose str() is s
NaN == [isna |-> TRUE, text |-> <<>>]

Val(s) == [isna |-> FALSE, text |-> s]

\* clean_text: NaN becomes "", anything else its whitespace-normalised str()
clean_text(value) ==
    IF value.isna THEN <<>> ELSE Strip(CollapseWs(value.text))


---------------------------------------------------------------------------
(* detect_description_column *)

\* keyword_weights, in the dict's order
keyword_weights ==
    << [key |-> <<"j","o","b"," ","d","e","s","c","r","i","p","t","i","o","n">>, weight |-> 6],
       [key |-> <<"d","e","s","c","r","i","p","t","i","o","n">>, weight |-> 5],
       [key |-> <<"r","e","s","p","o","n","s","i","b","i","l","i","t","i","e","s">>, weight |-> 4],
       [key |-> <<"d","e","t","a","i","l","s">>, weight |-> 3],
       [key |-> <<"s","u","m","m","a","r","y">>, weight |-> 2],
       [key |-> <<"t","e","x","t">>, weight |-> 1] >>

RECURSIVE SumWeights(_, _)
SumWeights(col_name, k) ==
    IF k = 0 THEN 0
    ELSE SumWeights(col_name, k - 1)
           + (IF IsSubstring(keyword_weights[k].key, col_name)
              THEN keyword_weights[k].weight ELSE 0)

\* name_score of a column: col.lower().strip(), then the sum over the matching keywords
name_score(col) == SumWeights(Strip(Lower(col)), Len(keyword_weights))

\* position of the column called `name` (df[name])
ColIndex(table, name) == CHOOSE c \in 1..Len(table.columns) : table.columns[c] = name

\* df[col].map(clean_text), for the column at position c
CleanColumn(table, c) == [r \in 1..Len(table.rows) |-> clean_text(table.rows[r][c])]

RECURSIVE SumLen(_, _)
SumLen(series, k) ==
    IF k = 0 THEN 0 ELSE SumLen(series, k - 1) + Len(series[k])

\* avg_len as the fraction num/den: the mean length of the non-empty cells, 0 if none
avg_len(table, c) ==
    LET non_empty == SelectSeq(CleanColumn(table, c), LAMBDA t : t # <<>>)
    IN IF non_empty = <<>> THEN [num |-> 0, den |-> 1]
       ELSE [num |-> SumLen(non_empty, Len(non_empty)), den |-> Len(non_empty)]

\* total_score = name_score * 1000 + avg_len, as a fraction
total_score(table, c) ==
    LET a == avg_len(table, c)
    IN [num |-> name_score(table.columns[c]) * NameMultiplier * a.den + a.num,
        den |-> a.den]

\* float("-inf"), as the fraction -1/0
NegInf == [num |-> -1, den |-> 0]

\* a > b on these fractions (denominators are never negative)
ScoreGt(a, b) == a.num * b.den > b.num * a.den

\* (best_col, best_score) after the loop has seen columns 1..k; best_col 0 is None
RECURSIVE DetectLoop(_, _)
DetectLoop(table, k) ==
    IF k = 0 THEN [best_col |-> 0, best_score |-> NegInf]
    ELSE LET prev == DetectLoop(table, k - 1)
             t == total_score(table, k)
         IN IF ScoreGt(t, prev.best_score)
            THEN [best_col |-> k, best_score |-> t]
            ELSE prev

\* the loop with `>=` for `>`: on equal totals the later column replaces the earlier
RECURSIVE DetectLoopGe(_, _)
DetectLoopGe(table, k) ==
    IF k = 0 THEN [best_col |-> 0, best_score |-> NegInf]
    ELSE LET prev == DetectLoopGe(table, k - 1)
             t == total_score(table, k)
         IN IF ~ScoreGt(prev.best_score, t)
            THEN [best_col |-> k, best_score |-> t]
            ELSE prev

\* a result that is None, and one that is the column name
NotFound == [found |-> FALSE, name |-> <<>>]

Found(name) == [found |-> TRUE, name |-> name]

detect_description_column_ge(table) ==
    LET best == DetectLoopGe(table, Len(table.columns))
    IN IF best.best_col = 0 THEN NotFound ELSE Found(table.columns[best.best_col])

\* detect_description_column: NotFound stands for the ValueError of line 75
detect_description_column(table) ==
    LET best == DetectLoop(table, Len(table.columns))
    IN IF best.best_col = 0 THEN NotFound ELSE Found(table.columns[best.best_col])

---------------------------------------------------------------------------
(* detect_optional_columns *)

\* candidate_names
candidate_names ==
    [title |-> << <<"t","i","t","l","e">>, <<"p","o","s","i","t","i","o","n">>, <<"j","o","b"," ","t","i","t","l","e">>, <<"r","o","l","e">> >>,
     company |-> << <<"c","o","m","p","a","n","y">>, <<"e","m","p","l","o","y","e","r">>, <<"o","r","g","a","n","i","z","a","t","i","o","n">> >>,
     url |-> << <<"u","r","l">>, <<"l","i","n","k">>, <<"j","o","b","_","u","r","l">>, <<"p","o","s","t","i","n","g","_","u","r","l">> >>]

Slots == {"title", "company", "url"}

\* `name in lower_lookup`
InLookup(table, name) ==
    \E c \in 1..Len(table.columns) : Strip(Lower(table.columns[c])) = name

\* lower_lookup[name]: the dict comprehension keeps the last column with that key
lower_lookup(table, name) ==
    LET hits == {c \in 1..Len(table.columns) : Strip(Lower(table.columns[c])) = name}
    IN table.columns[CHOOSE c \in hits : \A d \in hits : d <= c]

\* the inner loop of lines 93-96 from candidate i on: first name in the lookup, then break
RECURSIVE ResolveFrom(_, _, _)
ResolveFrom(table, names, i) ==
    IF i > Len(names) THEN NotFound
    ELSE IF InLookup(table, names[i]) THEN Found(lower_lookup(table, names[i]))
    ELSE ResolveFrom(table, names, i + 1)

\* the inner loop without its break: the last candidate in the lookup stays
RECURSIVE ResolveNoBreak(_, _, _)
ResolveNoBreak(table, names, i) ==
    IF i > Len(names) THEN NotFound
    ELSE LET rest == ResolveNoBreak(table, names, i + 1)
         IN IF rest.found THEN rest
            ELSE IF InLookup(table, names[i]) THEN Found(lower_lookup(table, names[i]))
            ELSE NotFound

detect_optional_columns_nobreak(table) ==
    [key \in Slots |-> ResolveNoBreak(table, candidate_names[key], 1)]

detect_optional_columns(table) ==
    [key \in Slots |-> ResolveFrom(table, candidate_names[key], 1)]

---------------------------------------------------------------------------
(* rank_matches *)

\* work_df after lines 106-108: the rows whose cleaned description is not "", in row
\* order, each with its index label, its cells and its _description
FilterRows(table, col) ==
    LET c == ColIndex(table, col)
        all == [r \in 1..Len(table.rows) |->
                  [index |-> r - 1,
                   cells |-> table.rows[r],
                   _description |-> clean_text(table.rows[r][c])]]
    IN SelectSeq(all, LAMBDA row : row._description # <<>>)

\* words of sklearn's ENGLISH_STOP_WORDS that the inputs use
StopWords == { <<"t","h","e">>, <<"a","n","d">>, <<"o","f">> }

\* TfidfVectorizer(stop_words="english") on one document: lower-case it, take the
\* matches of \b\w\w+\b (maximal runs of two or more word characters), drop stop words
Terms(doc) ==
    LET s == Lower(doc)
        n == Len(s)
        IsW(i) == s[i] \in WordChars
        starts == {i \in 1..n : IsW(i) /\ (i = 1 \/ ~IsW(i - 1))}
        End(i) == CHOOSE j \in i..n : (j = n \/ ~IsW(j + 1)) /\ \A k \in i..j : IsW(k)
        tokens == {SubSeq(s, i, End(i)) : i \in starts}
    IN {t \in tokens : Len(t) >= 2 /\ t \notin StopWords}

\* vocabulary_ after fit_transform(corpus)
Vocabulary(corpus) == UNION {Terms(corpus[i]) : i \in 1..Len(corpus)}

\* cosine_similarity(resume_vector, job_vectors).flatten().  TF-IDF weights are
\* positive, so a cosine is 0 exactly when the two documents share no term (a zero
\* vector included), and equal documents get equal cosines; which positive value a
\* cosine takes is left open: one of 1..MaxScore.
ScoreVectors(resume, descs) ==
    LET resume_terms == Terms(resume)
        disjoint == [i \in 1..Len(descs) |-> resume_terms \cap Terms(descs[i]) = {}]
    IN {s \in [1..Len(descs) -> 0..MaxScore] :
          /\ \A i \in 1..Len(descs) : s[i] = 0 <=> disjoint[i]
          /\ \A i, j \in 1..Len(descs) : descs[i] = descs[j] => s[i] = s[j]}

\* work_df["score"] = scores
WithScores(work, scores) ==
    [i \in 1..Len(work) |->
        [index |-> work[i].index, cells |-> work[i].cells,
         _description |-> work[i]._description, score |-> scores[i]]]

Perms(n) == {p \in [1..n -> 1..n] : \A i, j \in 1..n : p[i] = p[j] => i = j}

\* ascending=True for ascending=False
SortedIndexersAscending(work) ==
    {p \in Perms(Len(work)) :
        \A i, j \in 1..Len(work) : i < j => work[p[i]].score <= work[p[j]].score}

\* sort_values("score", ascending=False): kind is left at its default "quicksort",
\* which is not a stable sort, so rows of equal score come out in any order
SortedIndexers(work) ==
    {p \in Perms(Len(work)) :
        \A i, j \in 1..Len(work) : i < j => work[p[i]].score >= work[p[j]].score}

\* the score column sorted on its own, the rows left where they were
RankedScoresOnly(work, p) ==
    [k \in 1..Len(work) |-> [work[k] EXCEPT !.index = k - 1, !.score = work[p[k]].score]]

\* the rows in sorted order, then reset_index(drop=True)
Ranked(work, p) ==
    [k \in 1..Len(work) |-> [work[p[k]] EXCEPT !.index = k - 1]]

---------------------------------------------------------------------------
(* build_output_table *)

\* round(float(score), 6) in units of the 6th decimal: to the nearest, halves to even
Round(x) ==
    LET q == x \div ScoreSub
        r == x % ScoreSub
    IN IF 2 * r < ScoreSub THEN q
       ELSE IF 2 * r > ScoreSub THEN q + 1
       ELSE IF q % 2 = 0 THEN q ELSE q + 1

Ellipsis == <<".", ".", ".">>

\* the marker also at exactly 220 characters
SnippetGe(description) ==
    SubSeq(description, 1, IF Len(description) < SnippetLen THEN Len(description) ELSE SnippetLen)
        \o (IF Len(description) >= SnippetLen THEN Ellipsis ELSE <<>>)

\* description[:220] + ("..." if len(description) > 220 else "")
Snippet(description) ==
    SubSeq(description, 1, IF Len(description) < SnippetLen THEN Len(description) ELSE SnippetLen)
        \o (IF Len(description) > SnippetLen THEN Ellipsis ELSE <<>>)

\* python's truth value of optional_cols[key]: None and "" are false
Truthy(slot) == slot.found /\ slot.name # <<>>

\* clean_text(row[optional_cols[key]]) if optional_cols[key] else ""
OptionalField(table, row, slot) ==
    IF Truthy(slot) THEN clean_text(row.cells[ColIndex(table, slot.name)]) ELSE <<>>

\* rank = idx for rank = idx + 1
OutputRowZeroBased(table, row, optional) ==
    [rank |-> row.index,
     score |-> Round(row.score),
     title |-> OptionalField(table, row, optional.title),
     company |-> OptionalField(table, row, optional.company),
     url |-> OptionalField(table, row, optional.url),
     snippet |-> Snippet(clean_text(Val(row._description)))]

\* the dict appended for one row of ranked_df (lines 134-146)
OutputRow(table, row, optional) ==
    [rank |-> row.index + 1,
     score |-> Round(row.score),
     title |-> OptionalField(table, row, optional.title),
     company |-> OptionalField(table, row, optional.company),
     url |-> OptionalField(table, row, optional.url),
     snippet |-> Snippet(clean_text(Val(row._description)))]

build_output_table(ranked_df, optional) ==
    [k \in 1..Len(ranked_df.rows) |-> OutputRow(ranked_df, ranked_df.rows[k], optional)]

---------------------------------------------------------------------------
(* Inputs *)

PadPattern == <<"p","y","t","h","o","n"," ">>

\* a text of n characters: "python python python ..." cut at n
Pad(n) == [i \in 1..n |-> PadPattern[((i - 1) % Len(PadPattern)) + 1]]

\* the resume file: absent, empty, blank, stop words only, two terms
NoResumeFile == [exists |-> FALSE, text |-> <<>>]

ResumeFiles ==
    {NoResumeFile} \cup
    {[exists |-> TRUE, text |-> t] :
        t \in { <<>>, <<" ","\n">>, <<"t","h","e">>, <<" ","p","y","t","h","o","n","\t","d","e","v"," ","\n">> }}

\* the tables: a header and the rows a table under that header is made of
TableShapes ==
    {
      \* the description alone: missing, blank, stop words only, a shared term, no shared term
      [columns |-> << <<"d","e","s","c","r","i","p","t","i","o","n">> >>,
       pool |->
        { << NaN >>,
          << Val(<<" ","\t">>) >>,
          << Val(<<"t","h","e">>) >>,
          << Val(<<"P","y","t","h","o","n">>) >>,
          << Val(<<"g","o">>) >> }],
      \* a title, a long description and a company: descriptions of 300 and of 100 characters
      [columns |-> << <<"T","i","t","l","e">>, <<"J","o","b"," ","D","e","s","c","r","i","p","t","i","o","n">>, <<"C","o","m","p","a","n","y">> >>,
       pool |->
        { << Val(<<"d","e","v">>), Val(Pad(300)), Val(<<" ","a","c","m","e"," "," ","i","n","c"," ">>) >>,
          << NaN, Val(Pad(100)), NaN >>,
          << Val(<<"q","a">>), Val(<<"g","o">>), Val(<<"x","1">>) >> }],
      \* descriptions of exactly 220 and of 221 characters
      [columns |-> << <<"R","e","s","p","o","n","s","i","b","i","l","i","t","i","e","s">>, <<"O","r","g","a","n","i","z","a","t","i","o","n">> >>,
       pool |->
        { << Val(Pad(220)), Val(<<"o","1">>) >>,
          << Val(Pad(221)), NaN >>,
          << Val(<<" ","\t">>), Val(<<" ","o"," "," ","3"," ">>) >> }],
      \* two names of equal weight: the content decides, the left one on equal content
      [columns |-> << <<"T","e","x","t">>, <<"F","u","l","l"," ","T","e","x","t">> >>,
       pool |->
        { << Val(<<"g","o">>), Val(<<"P","y","t","h","o","n">>) >>,
          << Val(<<"P","y","t","h","o","n">>), Val(<<"g","o">>) >>,
          << Val(<<"g","o">>), NaN >> }],
      \* a keyword name next to a plain name with cells longer than the multiplier
      [columns |-> << <<"b","o","d","y">>, <<"t","e","x","t">> >>,
       pool |->
        { << Val(Pad(1003)), Val(<<"g","o">>) >>,
          << Val(Pad(1003)), NaN >>,
          << Val(<<"g","o">>), Val(<<"P","y","t","h","o","n">>) >> }],
      \* two url candidates, the later one of the list in the earlier column
      [columns |-> << <<"l","i","n","k">>, <<" ","U","R","L"," ">>, <<"d","e","t","a","i","l","s">> >>,
       pool |->
        { << Val(<<"l","1">>), Val(<<" ","u"," "," ","1">>), Val(<<"P","y","t","h","o","n"," ","d","e","v">>) >>,
          << NaN, Val(<<"u","2">>), Val(<<"g","o">>) >>,
          << Val(<<"l","3">>), NaN, NaN >> }],
      \* two title candidates and a company candidate
      [columns |-> << <<"R","o","l","e">>, <<"p","o","s","i","t","i","o","n">>, <<"E","m","p","l","o","y","e","r">>, <<"s","u","m","m","a","r","y">> >>,
       pool |->
        { << Val(<<"r","1">>), Val(<<"p","1">>), Val(<<"e","1">>), Val(<<"P","y","t","h","o","n">>) >>,
          << Val(<<"r","2">>), NaN, Val(<<" ","e"," ","2">>), Val(<<"g","o">>) >>,
          << NaN, Val(<<"p","3">>), NaN, Val(<<"t","h","e">>) >> }],
      \* two columns with the same lower-cased trimmed name
      [columns |-> << <<"T","i","t","l","e">>, <<"t","i","t","l","e"," ">>, <<"t","e","x","t">> >>,
       pool |->
        { << Val(<<"t","1">>), Val(<<"t","2">>), Val(<<"P","y","t","h","o","n">>) >>,
          << NaN, Val(<<"t","3">>), Val(<<"g","o">>) >> }],
      \* no keyword and no optional column
      [columns |-> << <<"i","d">>, <<"n","o","t","e","s">> >>,
       pool |->
        { << Val(<<"7">>), Val(<<"P","y","t","h","o","n"," ","d","e","v">>) >>,
          << Val(<<"8">>), NaN >>,
          << NaN, Val(<<"g","o">>) >> }] }

\* all sequences over S of length at most n
RECURSIVE SeqUpTo(_, _)
SeqUpTo(S, n) ==
    IF n = 0 THEN {<<>>}
    ELSE LET shorter == SeqUpTo(S, n - 1)
         IN shorter \cup {Append(q, x) : q \in {t \in shorter : Len(t) = n - 1}, x \in S}

Tables ==
    UNION {{[columns |-> sh.columns, rows |-> rows] : rows \in SeqUpTo(sh.pool, MaxRows)} :
            sh \in TableShapes}

\* a DataFrame without columns
NoTable == [columns |-> <<>>, rows |-> <<>>]

\* the data file: absent, empty (nothing to parse), or holding one of the tables
NoDataFile == [exists |-> FALSE, columns |-> <<>>, rows |-> <<>>]

DataFiles ==
    {NoDataFile} \cup
    {[exists |-> TRUE, columns |-> t.columns, rows |-> t.rows] : t \in Tables \cup {NoTable}}

NoSlots == [key \in Slots |-> NotFound]

NotWritten == [written |-> FALSE, rows |-> <<>>]

---------------------------------------------------------------------------
(* main() *)

Init ==
    /\ pc = "check_resume"
    /\ resume_file \in ResumeFiles
    /\ data_file \in DataFiles
    /\ resume_text = <<>>
    /\ df = NoTable
    /\ description_col = NotFound
    /\ optional_cols = NoSlots
    /\ work_df = <<>>
    /\ indexer = <<>>
    /\ ranked = NoTable
    /\ output_df = <<>>
    /\ sink = NotWritten
    /\ error = ""

\* lines 161-162
CheckResumeExists ==
    /\ pc = "check_resume"
    /\ IF resume_file.exists
       THEN pc' = "check_data" /\ error' = error
       ELSE pc' = "failed" /\ error' = "FileNotFoundError: resume"
    /\ UNCHANGED <<resume_file, data_file, resume_text, df, description_col,
                   optional_cols, work_df, indexer, ranked, output_df, sink>>

\* lines 163-164
CheckDataExists ==
    /\ pc = "check_data"
    /\ IF data_file.exists
       THEN pc' = "read_resume" /\ error' = error
       ELSE pc' = "failed" /\ error' = "FileNotFoundError: data"
    /\ UNCHANGED <<resume_file, data_file, resume_text, df, description_col,
                   optional_cols, work_df, indexer, ranked, output_df, sink>>

\* lines 166-168, with the check of line 167 left out
ReadResumeNoCheck ==
    /\ pc = "read_resume"
    /\ resume_text' = clean_text(Val(resume_file.text))
    /\ pc' = "read_csv" /\ error' = error
    /\ UNCHANGED <<resume_file, data_file, df, description_col,
                   optional_cols, work_df, indexer, ranked, output_df, sink>>

\* lines 166-168
ReadResume ==
    /\ pc = "read_resume"
    /\ resume_text' = clean_text(Val(resume_file.text))
    /\ IF resume_text' # <<>>
       THEN pc' = "read_csv" /\ error' = error
       ELSE pc' = "failed" /\ error' = "ValueError: resume text is empty"
    /\ UNCHANGED <<resume_file, data_file, df, description_col,
                   optional_cols, work_df, indexer, ranked, output_df, sink>>

\* line 170: read_csv raises EmptyDataError on a file with no columns to parse
ReadCsv ==
    /\ pc = "read_csv"
    /\ IF data_file.columns # <<>>
       THEN /\ df' = [columns |-> data_file.columns, rows |-> data_file.rows]
            /\ pc' = "detect_description" /\ error' = error
       ELSE /\ df' = df
            /\ pc' = "failed" /\ error' = "EmptyDataError"
    /\ UNCHANGED <<resume_file, data_file, resume_text, description_col,
                   optional_cols, work_df, indexer, ranked, output_df, sink>>

\* line 171
DetectDescription ==
    /\ pc = "detect_description"
    /\ description_col' = detect_description_column(df)
    /\ IF description_col'.found
       THEN pc' = "detect_optional" /\ error' = error
       ELSE pc' = "failed" /\ error' = "ValueError: no description column"
    /\ UNCHANGED <<resume_file, data_file, resume_text, df,
                   optional_cols, work_df, indexer, ranked, output_df, sink>>

\* line 172
DetectOptional ==
    /\ pc = "detect_optional"
    /\ optional_cols' = detect_optional_columns(df)
    /\ pc' = "rank"
    /\ UNCHANGED <<resume_file, data_file, resume_text, df, description_col,
                   work_df, indexer, ranked, output_df, sink, error>>

\* line 174: rank_matches(resume_text, df, description_col), lines 105-124.
\* fit_transform raises ValueError("empty vocabulary ...") when no document of the
\* corpus holds a term.
RankMatches ==
    /\ pc = "rank"
    /\ LET work == FilterRows(df, description_col.name)
           corpus == <<resume_text>> \o [i \in 1..Len(work) |-> work[i]._description]
       IN IF work = <<>>
          THEN /\ pc' = "failed" /\ error' = "ValueError: no non-empty descriptions"
               /\ UNCHANGED <<work_df, indexer, ranked>>
          ELSE IF Vocabulary(corpus) = {}
          THEN /\ pc' = "failed" /\ error' = "ValueError: empty vocabulary"
               /\ UNCHANGED <<work_df, indexer, ranked>>
          ELSE \E scores \in ScoreVectors(resume_text, Tail(corpus)) :
                 /\ work_df' = WithScores(work, scores)
                 /\ \E p \in SortedIndexers(work_df') :
                      /\ indexer' = p
                      /\ ranked' = [columns |-> df.columns, rows |-> Ranked(work_df', p)]
                 /\ pc' = "build" /\ error' = error
    /\ UNCHANGED <<resume_file, data_file, resume_text, df, description_col,
                   optional_cols, output_df, sink>>

\* line 175
BuildOutput ==
    /\ pc = "build"
    /\ output_df' = build_output_table(ranked, optional_cols)
    /\ pc' = "write"
    /\ UNCHANGED <<resume_file, data_file, resume_text, df, description_col,
                   optional_cols, work_df, indexer, ranked, sink, error>>

\* line 176
WriteCsv ==
    /\ pc = "write"
    /\ sink' = [written |-> TRUE, rows |-> output_df]
    /\ pc' = "done"
    /\ UNCHANGED <<resume_file, data_file, resume_text, df, description_col,
                   optional_cols, work_df, indexer, ranked, output_df, error>>

Next ==
    \/ CheckResumeExists
    \/ CheckDataExists
    \/ ReadResume
    \/ ReadCsv
    \/ DetectDescription
    \/ DetectOptional
    \/ RankMatches
    \/ BuildOutput
    \/ WriteCsv

Spec == Init /\ [][Next]_vars

---------------------------------------------------------------------------
(* The detect_* functions called directly on a table, one without columns included *)

InitCall ==
    /\ pc = "call_detect_description"
    /\ resume_file = NoResumeFile
    /\ data_file = NoDataFile
    /\ resume_text = <<>>
    /\ df \in Tables \cup {NoTable}
    /\ description_col = NotFound
    /\ optional_cols = NoSlots
    /\ work_df = <<>>
    /\ indexer = <<>>
    /\ ranked = NoTable
    /\ output_df = <<>>
    /\ sink = NotWritten
    /\ error = ""

\* detect_description_column(df): the column name, or the ValueError of line 75
CallDetectDescription ==
    /\ pc = "call_detect_description"
    /\ description_col' = detect_description_column(df)
    /\ error' = IF description_col'.found THEN "" ELSE "ValueError: no description column"
    /\ pc' = "call_detect_optional"
    /\ UNCHANGED <<resume_file, data_file, resume_text, df,
                   optional_cols, work_df, indexer, ranked, output_df, sink>>

\* detect_optional_columns(df)
CallDetectOptional ==
    /\ pc = "call_detect_optional"
    /\ optional_cols' = detect_optional_columns(df)
    /\ pc' = "returned"
    /\ UNCHANGED <<resume_file, data_file, resume_text, df, description_col,
                   work_df, indexer, ranked, output_df, sink, error>>

NextCall == CallDetectDescription \/ CallDetectOptional

SpecCall == InitCall /\ [][NextCall]_vars

---------------------------------------------------------------------------
(* Claims *)

\* the row numbers of `table` whose cell in column `col` is not "" after clean_text
RetainedRows(table, col) ==
    {r \in 1..Len(table.rows) :
        clean_text(table.rows[r][ColIndex(table, col)]) # <<>>}

\* C1: in the rows rank_matches returns and in the rows build_output_table makes of
\* them, the score never increases from one position to the next: score[i] >= score[j]
\* for all i < j, at full precision and after rounding to 6 decimals.
C1_ScoresNonIncreasing ==
    pc \in {"write", "done"} =>
        /\ \A i, j \in 1..Len(ranked.rows) :
             i < j => ranked.rows[i].score >= ranked.rows[j].score
        /\ \A i, j \in 1..Len(output_df) :
             i < j => output_df[i].score >= output_df[j].score

\* a finished run with two output rows of different rounded scores, and a finished
\* run where two different full-precision scores round to the same value
C1_Witness ==
    /\ pc = "done"
    /\ Len(output_df) >= 2
    /\ \/ output_df[1].score > output_df[2].score
       \/ /\ ranked.rows[1].score > ranked.rows[2].score
          /\ output_df[1].score = output_df[2].score
    /\ indexer[1] > indexer[2]

\* C2: the ranks of the output rows are 1, 2, ..., N in output order, N being the
\* number of input rows whose description is non-empty after clean_text; no output
\* row comes from an empty description.
C2_RanksContiguous ==
    pc \in {"write", "done"} =>
        /\ Len(output_df) = Cardinality(RetainedRows(df, description_col.name))
        /\ \A k \in 1..Len(output_df) :
             output_df[k].rank = k /\ output_df[k].snippet # <<>>

\* a finished run that dropped the first input row for its empty description and
\* gave rank 1 to the second
C2_Witness ==
    /\ pc = "done"
    /\ Len(df.rows) = 2
    /\ Len(output_df) = 1
    /\ work_df[1].index = 1
    /\ output_df[1].rank = 1

\* C3: of two retained candidates with equal scores, the one earlier in the input
\* table comes first in the ranking (the descending sort is stable).
C3_StableSort ==
    pc \in {"build", "write", "done"} =>
        \A i, j \in 1..Len(ranked.rows) :
            (i < j /\ ranked.rows[i].score = ranked.rows[j].score)
                => indexer[i] < indexer[j]

\* C4: nothing is written unless every check has passed: both files exist, the
\* cleaned resume is not empty, the table has a description column and a row with a
\* non-empty description; a failed run has written nothing; column detection and
\* scoring start only with a non-empty resume text; a run ends finished only with
\* its output written, so a run with any of these faults can end only failed.
C4_FailFast ==
    /\ sink.written =>
         /\ pc = "done" /\ error = ""
         /\ resume_file.exists /\ data_file.exists
         /\ clean_text(Val(resume_file.text)) # <<>>
         /\ data_file.columns # <<>>
         /\ RetainedRows(data_file, detect_description_column(data_file).name) # {}
    /\ pc = "failed" => error # "" /\ ~sink.written /\ output_df = <<>>
    /\ pc \in {"read_csv", "detect_description", "detect_optional", "rank",
               "build", "write", "done"} => resume_text # <<>>
    /\ clean_text(Val(resume_file.text)) = <<>> =>
         /\ df = NoTable /\ description_col = NotFound /\ optional_cols = NoSlots
         /\ work_df = <<>> /\ ranked = NoTable
    /\ pc = "done" => sink.written /\ error = ""

\* a run that ended with the empty-corpus error, a resume and a table read, nothing written
C4_Witness ==
    /\ pc = "failed"
    /\ error = "ValueError: no non-empty descriptions"
    /\ resume_text # <<>>
    /\ df.rows # <<>>
    /\ ~sink.written

\* C5: detect_description_column fails exactly on a table without columns; otherwise
\* it returns the column of highest total = name_score * 1000 + content_score, the
\* leftmost one among columns of equal total (also when the table has no rows).
C5_DetectDescription ==
    pc \in {"call_detect_optional", "returned"} =>
        /\ description_col.found <=> df.columns # <<>>
        /\ error # "" <=> df.columns = <<>>
        /\ description_col.found =>
             /\ \E c \in 1..Len(df.columns) : df.columns[c] = description_col.name
             /\ LET c == ColIndex(df, description_col.name)
                IN \A d \in 1..Len(df.columns) :
                     /\ ~ScoreGt(total_score(df, d), total_score(df, c))
                     /\ d < c => ScoreGt(total_score(df, c), total_score(df, d))

\* a call that returned the left one of two columns of equal total, on a table with rows
C5_Witness ==
    /\ pc = "returned"
    /\ description_col.found
    /\ df.rows # <<>>
    /\ LET c == ColIndex(df, description_col.name)
       IN \E d \in 1..Len(df.columns) :
            /\ d > c
            /\ total_score(df, d) = total_score(df, c)
            /\ name_score(df.columns[c]) > 0

\* C6: a column with the higher name score has the higher total, whatever the cells.
C6_NameDominates ==
    pc \in {"call_detect_optional", "returned"} =>
        \A a, b \in 1..Len(df.columns) :
            name_score(df.columns[a]) > name_score(df.columns[b])
                => ScoreGt(total_score(df, a), total_score(df, b))

\* C7: each slot resolves to a column whose lower-cased trimmed name is the first
\* name of the slot's candidate list that some column has, and is unresolved when
\* no column has any of them; an unresolved slot is "" in every output row, and the
\* run does not fail for it.
C7_OptionalColumns ==
    /\ pc \in {"rank", "build", "write", "done"} =>
         \A key \in Slots :
            LET names == candidate_names[key]
                present == {i \in 1..Len(names) :
                              \E c \in 1..Len(df.columns) :
                                 Strip(Lower(df.columns[c])) = names[i]}
            IN IF present = {}
               THEN optional_cols[key] = NotFound
               ELSE /\ optional_cols[key].found
                    /\ \E c \in 1..Len(df.columns) :
                          df.columns[c] = optional_cols[key].name
                    /\ \A i \in present :
                          (\A j \in present : i <= j)
                             => Strip(Lower(optional_cols[key].name)) = names[i]
    /\ pc \in {"write", "done"} =>
         /\ Len(output_df) = Len(ranked.rows)
         /\ \A k \in 1..Len(output_df) :
              /\ ~optional_cols.title.found => output_df[k].title = <<>>
              /\ ~optional_cols.company.found => output_df[k].company = <<>>
              /\ ~optional_cols.url.found => output_df[k].url = <<>>

\* a finished run with output rows where one slot is unresolved and another is
\* resolved by a later name of its list while a column with a still later name exists
C7_Witness ==
    /\ pc = "done"
    /\ output_df # <<>>
    /\ \E key \in Slots : ~optional_cols[key].found
    /\ \E key \in Slots :
          /\ optional_cols[key].found
          /\ \E i, j \in 1..Len(candidate_names[key]) :
                /\ i < j
                /\ Strip(Lower(optional_cols[key].name)) = candidate_names[key][i]
                /\ InLookup(df, candidate_names[key][j])

\* C8: the snippet of an output row is the candidate's normalized description d when
\* len(d) <= 220, and the first 220 characters of d followed by "..." when len(d) > 220.
C8_Snippet ==
    pc \in {"write", "done"} =>
        /\ Len(output_df) = Len(ranked.rows)
        /\ \A k \in 1..Len(output_df) :
             LET d == ranked.rows[k]._description
                 snippet == output_df[k].snippet
             IN /\ d = clean_text(df.rows[work_df[indexer[k]].index + 1]
                                      [ColIndex(df, description_col.name)])
                /\ Len(d) <= SnippetLen => snippet = d
                /\ Len(d) > SnippetLen =>
                     /\ Len(snippet) = SnippetLen + 3
                     /\ SubSeq(snippet, 1, SnippetLen) = SubSeq(d, 1, SnippetLen)
                     /\ SubSeq(snippet, SnippetLen + 1, SnippetLen + 3) = <<".", ".", ".">>

\* a finished run with a 300-character description cut to 220 characters and the
\* marker, next to a 100-character description kept whole
C8_Witness ==
    /\ pc = "done"
    /\ \E k \in 1..Len(output_df) :
          Len(ranked.rows[k]._description) = 300 /\ Len(output_df[k].snippet) = 223
    /\ \E k \in 1..Len(output_df) :
          Len(ranked.rows[k]._description) = 100 /\ Len(output_df[k].snippet) = 100

\* C9: with a non-empty resume text and at least one non-empty description,
\* rank_matches gives every retained candidate a score, 0 for a candidate whose
\* vector or whose reference vector is zero; it fails only when no row is retained.
C9_OnlyEmptyCorpusFails ==
    /\ (pc = "failed" /\ description_col.found) =>
          RetainedRows(df, description_col.name) = {}
    /\ pc \in {"build", "write", "done"} =>
          /\ Len(work_df) = Cardinality(RetainedRows(df, description_col.name))
          /\ \A i \in 1..Len(work_df) :
                (Terms(resume_text) = {} \/ Terms(work_df[i]._description) = {})
                    => work_df[i].score = 0

\* C10: the output rows correspond one to one to the input rows with a non-empty
\* cleaned description, score, title, company, url and snippet of an output row all
\* come from its one input row, and the input table stays as it was read.
C10_RowIntegrity ==
    /\ pc \in {"detect_description", "detect_optional", "rank", "build", "write", "done"}
         => df = [columns |-> data_file.columns, rows |-> data_file.rows]
    /\ pc \in {"write", "done"} =>
         LET kept == RetainedRows(df, description_col.name)
             n == Len(output_df)
             dcol == ColIndex(df, description_col.name)
             Field(r, slot) ==
                 IF slot.found THEN clean_text(df.rows[r][ColIndex(df, slot.name)])
                 ELSE <<>>
             ScoreOf(r) ==
                 work_df[CHOOSE i \in 1..Len(work_df) : work_df[i].index = r - 1].score
         IN /\ n = Cardinality(kept)
            /\ \A i \in 1..Len(work_df) :
                  /\ work_df[i].index + 1 \in kept
                  /\ work_df[i].cells = df.rows[work_df[i].index + 1]
            /\ \E f \in [1..n -> kept] :
                  /\ \A i, j \in 1..n : f[i] = f[j] => i = j
                  /\ \A k \in 1..n :
                        /\ output_df[k].score = Round(ScoreOf(f[k]))
                        /\ output_df[k].title = Field(f[k], optional_cols.title)
                        /\ output_df[k].company = Field(f[k], optional_cols.company)
                        /\ output_df[k].url = Field(f[k], optional_cols.url)
                        /\ output_df[k].snippet = Snippet(clean_text(df.rows[f[k]][dcol]))

\* a finished run whose ranking put a later input row first, its score the higher,
\* on a table with an optional column resolved
C10_Witness ==
    /\ pc = "done"
    /\ Len(output_df) >= 2
    /\ indexer[1] > indexer[2]
    /\ ranked.rows[1].score > ranked.rows[2].score
    /\ \E key \in Slots : optional_cols[key].found

=============================================================================
